---- MODULE Spec2Model ----
(***************************************************************************)
(* Model of the antenna-tracker core in src/src/module_aat.cpp             *)
(* (class AatModule): GPS fix hand-off, home latching, update-interval and *)
(* angular-rate estimation, azimuth projection and servo smoothing.        *)
(*                                                                         *)
(* 32-bit words.  TLC's integers are the 32-bit signed integers, so every  *)
(* 32-bit word of the program (uint32_t or int32_t) is stored as the       *)
(* signed value of its two's-complement bit pattern: the uint32_t value u  *)
(* is stored as u when u < 2^31 and as u - 2^32 otherwise.  The operators  *)
(* AddW, SubW, MulW compute modulo 2^32 on that representation; ULt, UGt,  *)
(* UDiv, URem are the unsigned comparison, division and remainder; CDiv    *)
(* and CRem are C's signed division and remainder (truncating).            *)
(***************************************************************************)
EXTENDS Integers, Sequences, FiniteSets, TLC

(***************************************************************************)
(* Bounds of the model                                                     *)
(***************************************************************************)
\* number of control ticks (calls of Loop) explored
MaxTicks == 4
\* number of control ticks explored when fixes arrive at a constant 1000 ms
MaxSteadyTicks == 40
\* number of control ticks explored when the fixes stop, and the number of
\* those ticks before which a fix can arrive
MaxSettleTicks == 60
MaxFixTicks == 7

(***************************************************************************)
(* Program constants                                                       *)
(***************************************************************************)
DELAY_IDLE == 20
DELAY_FIRST_UPDATE == 5000
GPS_UPDATE_INTERVAL_MAX == 10 * 1000 * 100
SERVO_UPDATE_MIN_MS == 20
PROJECT_MIN_DISTANCE == 3
AZIM_MS_PER_DEGREE_MIN == 10
SERVO_JUMP_PCT == 80
ALTITUDE_OFFSET == 1000
IDX_AZIM == 0
IDX_ELEV == 1
IDX_COUNT == 2

(***************************************************************************)
(* 32-bit arithmetic                                                       *)
(***************************************************************************)
MaxI32 == 2147483647
MinI32 == -2147483647 - 1

Abs(a) == IF a < 0 THEN -a ELSE a

\* (a + b) mod 2^32
AddW(a, b) ==
    IF a >= 0 /\ b >= 0 /\ a > MaxI32 - b THEN (a + MinI32) + (b + MinI32)
    ELSE IF a < 0 /\ b < 0 /\ a < MinI32 - b THEN (a - MinI32) + (b - MinI32)
    ELSE a + b

NegW(a) == IF a = MinI32 THEN MinI32 ELSE -a

\* (a - b) mod 2^32
SubW(a, b) == AddW(a, NegW(b))

\* the signed value of the 32-bit word whose 16-bit halves are hi and lo
FromHalves(hi, lo) == (IF hi >= 32768 THEN hi - 65536 ELSE hi) * 65536 + lo

\* (a * k) mod 2^32, for 0 <= k <= 32767
MulW(a, k) ==
    LET hi == a \div 65536
        lo == a % 65536
        p  == lo * k
    IN  FromHalves((((hi * k) % 65536) + (p \div 65536)) % 65536, p % 65536)

\* unsigned a < b, a > b
ULt(a, b) == IF (a >= 0) = (b >= 0) THEN a < b ELSE b < 0
UGt(a, b) == ULt(b, a)

\* unsigned a / d, for 2 <= d
UDiv(a, d) ==
    IF a >= 0 THEN a \div d
    ELSE LET u == a - MinI32
         IN  (u \div d) + (MaxI32 \div d) + (((u % d) + (MaxI32 % d) + 1) \div d)

\* unsigned a % d, for 2 <= d <= 32767
URem(a, d) == SubW(a, MulW(UDiv(a, d), d))

\* C's signed division and remainder (truncation toward zero), b # 0
CDivP(a, b) ==
    LET q == a \div b IN IF a < 0 /\ q * b # a THEN q + 1 ELSE q
CDiv(a, b) == IF b > 0 THEN CDivP(a, b) ELSE -CDivP(a, -b)
CRem(a, b) == a - b * CDiv(a, b)

\* Arduino's constrain(amt, low, high) on unsigned and on signed operands
UConstrain(amt, low, high) ==
    IF ULt(amt, low) THEN low ELSE IF UGt(amt, high) THEN high ELSE amt
SConstrain(amt, low, high) ==
    IF amt < low THEN low ELSE IF amt > high THEN high ELSE amt

\* be32toh / be16toh: the host value of a big-endian field given as bytes
be32toh(b) == FromHalves(b[1] * 256 + b[2], b[3] * 256 + b[4])
be16toh(b) == b[1] * 256 + b[2]

(***************************************************************************)
(* Geodesy.  The floating-point part of calcDistAndAzimuth and of          *)
(* calcElevation is tabulated on the positions of the model: GeoTable      *)
(* holds, for a source and a destination (lat, lon in degrees * 10^7),     *)
(* the great-circle distance acos(...) * R and the bearing                 *)
(* RAD2DEG(atan2(X, Y)), each evaluated with the operand widths of the     *)
(* code (float for the degree values, double for the trigonometry) and     *)
(* truncated toward zero; ElevTable holds RAD2DEG(atan2(alt, dist))        *)
(* truncated toward zero.                                                  *)
(***************************************************************************)
GeoTable ==
    <<100000, 100000, 100000, 100000>> :> [dist |-> 0, hdg |-> 0] @@
    <<100000, 100000, 110000, 100000>> :> [dist |-> 111, hdg |-> 0] @@
    <<100000, 100000, 100000, 110000>> :> [dist |-> 111, hdg |-> 89] @@
    <<110000, 100000, 100000, 100000>> :> [dist |-> 111, hdg |-> 180] @@
    <<110000, 100000, 110000, 100000>> :> [dist |-> 0, hdg |-> 0] @@
    <<110000, 100000, 100000, 110000>> :> [dist |-> 157, hdg |-> 135] @@
    <<100000, 110000, 100000, 100000>> :> [dist |-> 111, hdg |-> -89] @@
    <<100000, 110000, 110000, 100000>> :> [dist |-> 157, hdg |-> -44] @@
    <<100000, 110000, 100000, 110000>> :> [dist |-> 0, hdg |-> 0]

ElevTable ==
    <<-100, 0>> :> -90 @@
    <<0, 0>> :> 0 @@
    <<100, 0>> :> 90 @@
    <<-100, 111>> :> -42 @@
    <<0, 111>> :> 0 @@
    <<100, 111>> :> 42 @@
    <<-100, 157>> :> -32 @@
    <<0, 157>> :> 0 @@
    <<100, 157>> :> 32

\* uint32_t hdg = RAD2DEG(atan2(X, Y)): the conversion of a double to
\* uint32_t.  It is undefined for a value <= -1; the builds either
\* saturate (0) or convert through a signed integer (the value mod 2^32).
HdgOutcomes(h) == IF h < 0 THEN {0, h} ELSE {h}

\* calcDistAndAzimuth storing the converted bearing without (hdg + 360) % 360
calcDistAndAzimuth_Raw(srcLat, srcLon, dstLat, dstLon) ==
    LET g == GeoTable[<<srcLat, srcLon, dstLat, dstLon>>]
    IN  { [dist |-> g.dist, azimuth |-> hdg] : hdg \in HdgOutcomes(g.hdg) }

\* calcDistAndAzimuth: the possible results <<distance, azimuth>>
calcDistAndAzimuth(srcLat, srcLon, dstLat, dstLon) ==
    LET g == GeoTable[<<srcLat, srcLon, dstLat, dstLon>>]
    IN  { [dist |-> g.dist, azimuth |-> URem(AddW(hdg, 360), 360)] :
            hdg \in HdgOutcomes(g.hdg) }

calcElevation(distance, altitude) == ElevTable[<<altitude, distance>>]

(***************************************************************************)
(* Inputs                                                                  *)
(***************************************************************************)
\* The GPS frames delivered by the telemetry decoder, as they are on the
\* wire (big-endian bytes): three positions about 111 m apart, altitude
\* fields 1000 and 1100 (0 m and 100 m), 5 to 7 satellites.
LatLonC == <<0, 1, 134, 160>>
LatLonP == <<0, 1, 173, 176>>
Alt0    == <<3, 232>>
Alt100  == <<4, 76>>

Packets ==
    { [lat |-> LatLonC, lon |-> LatLonC, speed |-> <<0, 0>>, heading |-> <<0, 0>>,
       altitude |-> Alt0, satcnt |-> 7],
      [lat |-> LatLonC, lon |-> LatLonC, speed |-> <<0, 0>>, heading |-> <<0, 0>>,
       altitude |-> Alt100, satcnt |-> 5],
      [lat |-> LatLonC, lon |-> LatLonP, speed |-> <<0, 0>>, heading |-> <<0, 0>>,
       altitude |-> Alt0, satcnt |-> 6],
      [lat |-> LatLonP, lon |-> LatLonC, speed |-> <<0, 0>>, heading |-> <<0, 0>>,
       altitude |-> Alt100, satcnt |-> 7] }

\* The frames delivered when fixes arrive at a constant rate
SteadyPackets == { p \in Packets : p.satcnt = 7 /\ p.altitude = Alt0 }

\* The configurations (read-only for the tracker)
Configs ==
    { [satHomeMin |-> 6, servoLow |-> <<1000, 1000>>, servoHigh |-> <<2000, 2000>>,
       servoSmooth |-> 1, project |-> TRUE],
      [satHomeMin |-> 7, servoLow |-> <<500, 1000>>, servoHigh |-> <<2500, 2000>>,
       servoSmooth |-> 3, project |-> FALSE] }

\* The time between two control ticks, in ms: 10 (shorter than the servo
\* period), 1000 (one GPS period) and 40000 (a gap in the telemetry)
Steps == {10, 1000, 40000}

\* The same with 2^32 - 1500 (close to the period of the 32-bit millisecond
\* counter, stored as -1500)
WrapSteps == {10, 1000, -1500}

\* The times at which the staleness percentage is read, relative to the
\* latest tick: up to 429400 ms the product elapsed * 10000 fits 32 bits
StaleSteps == {0, 100, 1000, 40000, 429400, 429500}

\* The times at which the projection is probed, relative to the latest tick
ProbeSteps == {0, 1, 19, 1000, 7750, 40000, -1500, MaxI32, MinI32}

(***************************************************************************)
(* State                                                                   *)
(***************************************************************************)
VARIABLES
    config,                 \* the configuration
    now,                    \* the millisecond counter at the latest tick
    gpsLast,                \* _gpsLast: the single-slot fix buffer
    home,                   \* _home
    homeState,              \* what isHomeSet() reports: "Unset" or "Set"
    gpsAvgUpdateInterval,   \* _gpsAvgUpdateInterval, ms * 100
    lastServoUpdateMs,      \* _lastServoUpdateMs
    targetDistance,         \* _targetDistance, m
    targetAzim,             \* _targetAzim, degrees
    targetElev,             \* _targetElev, degrees
    azimMsPerDegree,        \* _azimMsPerDegree
    servoPos,               \* _servoPos, us * 100, indexed IDX_AZIM, IDX_ELEV
    loopBranch,             \* the branch the latest Loop took
    nticks                  \* the number of calls of Loop

vars == <<config, now, gpsLast, home, homeState, gpsAvgUpdateInterval,
          lastServoUpdateMs, targetDistance, targetAzim, targetElev,
          azimMsPerDegree, servoPos, loopBranch, nticks>>

\* config.GetAatServoLow(idx), config.GetAatServoHigh(idx): idx is 0-based
GetAatServoLow(idx) == config.servoLow[idx + 1]
GetAatServoHigh(idx) == config.servoHigh[idx + 1]

\* AatModule::AatModule followed by AatModule::Init
Init ==
    /\ config \in Configs
    /\ now = 0
    /\ gpsLast = [lat |-> 0, lon |-> 0, speed |-> 0, heading |-> 0, altitude |-> 0,
                  satcnt |-> 0, updated |-> FALSE, lastUpdateMs |-> 0]
    /\ home = [lat |-> 0, lon |-> 0, alt |-> 0]
    /\ homeState = "Unset"
    /\ gpsAvgUpdateInterval = 0
    /\ lastServoUpdateMs = 0
    /\ targetDistance = 0
    /\ targetAzim = 0
    /\ targetElev = 0
    /\ azimMsPerDegree = 0
    /\ servoPos = [idx \in {IDX_AZIM, IDX_ELEV} |->
                     CDiv(GetAatServoLow(idx) + GetAatServoHigh(idx), 2) * 100]
    /\ loopBranch = "none"
    /\ nticks = 0

\* isHomeSet() is declared in module_aat.h: the home state is Unset until
\* processGps sets the home position and Set from then on
isHomeSet == homeState = "Set"

(***************************************************************************)
(* Telemetry                                                               *)
(***************************************************************************)
SendGpsTelemetry(packet) ==
    /\ gpsLast' = [lat |-> be32toh(packet.lat),
                   lon |-> be32toh(packet.lon),
                   speed |-> be16toh(packet.speed),
                   heading |-> be16toh(packet.heading),
                   altitude |-> be16toh(packet.altitude) - ALTITUDE_OFFSET,
                   satcnt |-> packet.satcnt,
                   updated |-> TRUE,
                   lastUpdateMs |-> gpsLast.lastUpdateMs]
    /\ UNCHANGED <<config, now, home, homeState, gpsAvgUpdateInterval,
                   lastServoUpdateMs, targetDistance, targetAzim, targetElev,
                   azimMsPerDegree, servoPos, loopBranch, nticks>>

(***************************************************************************)
(* GPS processing                                                          *)
(***************************************************************************)
\* updateGpsInterval with a signed comparison against the ceiling
updateGpsInterval_SignedClamp(avg, interval) ==
    LET scaled == MulW(interval, 100)
        a == AddW(avg, CDiv(SubW(scaled, avg), 4))
    IN  IF a > GPS_UPDATE_INTERVAL_MAX THEN GPS_UPDATE_INTERVAL_MAX ELSE a

\* updateGpsInterval without the scaling of the interval to ms * 100
updateGpsInterval_Unscaled(avg, interval) ==
    LET a == AddW(avg, CDiv(SubW(interval, avg), 4))
    IN  IF UGt(a, GPS_UPDATE_INTERVAL_MAX) THEN GPS_UPDATE_INTERVAL_MAX ELSE a

\* updateGpsInterval: the new average for the average avg and an interval.
\* The signed subtraction is taken modulo 2^32.
updateGpsInterval(avg, interval) ==
    LET scaled == MulW(interval, 100)
        a == AddW(avg, CDiv(SubW(scaled, avg), 4))
    IN  IF UGt(a, GPS_UPDATE_INTERVAL_MAX) THEN GPS_UPDATE_INTERVAL_MAX ELSE a

\* calcGpsIntervalPct(now): the age of the last processed fix as a
\* percentage of the average interval; the product is taken modulo 2^32
calcGpsIntervalPct(t) ==
    IF gpsAvgUpdateInterval # 0
    THEN LET product == MulW(SubW(t, gpsLast.lastUpdateMs), 100 * 100)
         IN  UConstrain(IF gpsAvgUpdateInterval = 1 THEN product
                        ELSE UDiv(product, gpsAvgUpdateInterval), 0, 100)
    ELSE 0

\* azimDelta of processGps
azimDeltaOf(azimuth, prevAzim) ==
    SubW(URem(AddW(SubW(azimuth, prevAzim), 540), 360), 180)

\* the state of the tracker when processGps returns without processing
processGpsSkip ==
    [gps |-> gpsLast, home |-> home, homeState |-> homeState,
     avg |-> gpsAvgUpdateInterval, rate |-> azimMsPerDegree,
     dist |-> targetDistance, elev |-> targetElev, azim |-> targetAzim]

\* didSetHome without the check that no home is set yet
didSetHome_Relatch == gpsLast.satcnt >= config.satHomeMin

\* didSetHome with a strict comparison of the satellite count
didSetHome_Strict == ~isHomeSet /\ gpsLast.satcnt > config.satHomeMin

\* didSetHome of processGps: the buffered fix sets the home position
didSetHome == ~isHomeSet /\ gpsLast.satcnt >= config.satHomeMin

\* _home when processGps goes on to the target vector
homeOf(setHome) ==
    IF setHome
    THEN [lat |-> gpsLast.lat, lon |-> gpsLast.lon, alt |-> gpsLast.altitude]
    ELSE home

\* rateEstimate that does not skip the fix that sets home
rateEstimate_NoSkip(setHome, interval, azimuth) ==
    LET azimDelta == azimDeltaOf(azimuth, targetAzim)
    IN  <<updateGpsInterval(gpsAvgUpdateInterval, interval),
          IF azimDelta = 0 THEN 0 ELSE CDiv(interval, azimDelta)>>

\* the rate estimate <<_gpsAvgUpdateInterval, _azimMsPerDegree>> after a fix
\* at the given azimuth, processed interval ms after the previous one
rateEstimate(setHome, interval, azimuth) ==
    IF setHome THEN <<gpsAvgUpdateInterval, azimMsPerDegree>>
    ELSE LET azimDelta == azimDeltaOf(azimuth, targetAzim)
         IN  <<updateGpsInterval(gpsAvgUpdateInterval, interval),
               IF azimDelta = 0 THEN 0 ELSE CDiv(interval, azimDelta)>>

\* processGps that leaves the fresh flag set
processGps_KeepFlag(t) ==
    IF ~gpsLast.updated THEN {processGpsSkip}
    ELSE
      LET interval == SubW(t, gpsLast.lastUpdateMs)
          gps == [gpsLast EXCEPT !.lastUpdateMs = t]
      IN  IF ~isHomeSet /\ ~didSetHome
          THEN {[processGpsSkip EXCEPT !.gps = gps]}
          ELSE
            LET h == homeOf(didSetHome)
            IN  { LET est == rateEstimate(didSetHome, interval, r.azimuth)
                  IN  [gps |-> gps, home |-> h, homeState |-> "Set",
                       avg |-> est[1], rate |-> est[2],
                       dist |-> r.dist,
                       elev |-> SConstrain(
                           calcElevation(r.dist, gpsLast.altitude - h.alt), 0, 90),
                       azim |-> r.azimuth]
                  : r \in calcDistAndAzimuth(h.lat, h.lon, gpsLast.lat, gpsLast.lon) }

\* processGps(t): the possible states of the tracker when it returns
processGps(t) ==
    IF ~gpsLast.updated THEN {processGpsSkip}
    ELSE
      LET interval == SubW(t, gpsLast.lastUpdateMs)
          gps == [gpsLast EXCEPT !.updated = FALSE, !.lastUpdateMs = t]
      IN  IF ~isHomeSet /\ ~didSetHome
          THEN {[processGpsSkip EXCEPT !.gps = gps]}
          ELSE
            LET h == homeOf(didSetHome)
            IN  { LET est == rateEstimate(didSetHome, interval, r.azimuth)
                  IN  [gps |-> gps, home |-> h, homeState |-> "Set",
                       avg |-> est[1], rate |-> est[2],
                       dist |-> r.dist,
                       elev |-> SConstrain(
                           calcElevation(r.dist, gpsLast.altitude - h.alt), 0, 90),
                       azim |-> r.azimuth]
                  : r \in calcDistAndAzimuth(h.lat, h.lon, gpsLast.lat, gpsLast.lon) }

(***************************************************************************)
(* Projection                                                              *)
(***************************************************************************)
\* projectedOffset without the limit on the rate
projectedOffset_NoFloor(s, t) ==
    LET elapsed == UConstrain(SubW(t, s.gps.lastUpdateMs), 0, UDiv(s.avg, 100))
    IN  CDiv(elapsed, s.rate)

\* (int32_t)elapsed / azimMsPDLimited of calcProjectedAzim: the degrees
\* added to the target azimuth at time t in the tracker state s
projectedOffset(s, t) ==
    LET elapsed == UConstrain(SubW(t, s.gps.lastUpdateMs), 0, UDiv(s.avg, 100))
        azimMsPDLimited ==
            IF s.rate > -AZIM_MS_PER_DEGREE_MIN /\ s.rate < AZIM_MS_PER_DEGREE_MIN
            THEN IF s.rate > 0 THEN AZIM_MS_PER_DEGREE_MIN
                 ELSE -AZIM_MS_PER_DEGREE_MIN
            ELSE s.rate
    IN  CDiv(elapsed, azimMsPDLimited)

\* calcProjectedAzimIn without the check of the target distance
calcProjectedAzimIn_NoDistance(s, t) ==
    IF config.project /\ s.avg # 0 /\ s.rate # 0
    THEN CRem(projectedOffset(s, t) + s.azim + 360, 360)
    ELSE s.azim

\* calcProjectedAzim(t) in the tracker state s (a result of processGps)
calcProjectedAzimIn(s, t) ==
    IF config.project /\ s.avg # 0 /\ s.rate # 0 /\ UGt(s.dist, PROJECT_MIN_DISTANCE)
    THEN CRem(projectedOffset(s, t) + s.azim + 360, 360)
    ELSE s.azim

\* calcProjectedAzim(t) in the current state
calcProjectedAzim(t) == calcProjectedAzimIn(processGpsSkip, t)

(***************************************************************************)
(* Servo                                                                   *)
(***************************************************************************)
\* Arduino's map()
map(x, in_min, in_max, out_min, out_max) ==
    CDiv((x - in_min) * (out_max - out_min), in_max - in_min) + out_min

\* newServoPos of servoUpdate for a projected azimuth and an elevation
newServoPos(projectedAzim, elev) ==
    LET transformedAzim == CRem(projectedAzim + 180, 360)
    IN  (IDX_AZIM :> 100 * map(transformedAzim, 0, 360,
                               GetAatServoLow(IDX_AZIM), GetAatServoHigh(IDX_AZIM))) @@
        (IDX_ELEV :> 100 * map(elev, 0, 90,
                               GetAatServoLow(IDX_ELEV), GetAatServoHigh(IDX_ELEV)))

\* servoStep multiplying by the smoothing divisor where it should divide
servoStep_Multiply(idx, pos, newPos) ==
    LET range == 100 * (GetAatServoHigh(idx) - GetAatServoLow(idx))
        diff == newPos - pos
    IN  IF CDiv(Abs(diff) * 100, range) > SERVO_JUMP_PCT
        THEN newPos
        ELSE pos + diff * (config.servoSmooth + 1)

\* servoStep comparing the raw ratio, not the percentage, with the threshold
servoStep_NoPercent(idx, pos, newPos) ==
    LET range == 100 * (GetAatServoHigh(idx) - GetAatServoLow(idx))
        diff == newPos - pos
    IN  IF CDiv(Abs(diff), range) > SERVO_JUMP_PCT
        THEN newPos
        ELSE pos + CDiv(diff, config.servoSmooth + 1)

\* one iteration of the loop of servoUpdate: the new position of axis idx
servoStep(idx, pos, newPos) ==
    LET range == 100 * (GetAatServoHigh(idx) - GetAatServoLow(idx))
        diff == newPos - pos
    IN  IF CDiv(Abs(diff) * 100, range) > SERVO_JUMP_PCT
        THEN newPos
        ELSE pos + CDiv(diff, config.servoSmooth + 1)

\* servoUpdate without the check of the time since the last update
servoUpdate_NoGate(s, t) ==
    /\ lastServoUpdateMs' = t
    /\ servoPos' = [idx \in {IDX_AZIM, IDX_ELEV} |->
           servoStep(idx, servoPos[idx],
                     newServoPos(calcProjectedAzimIn(s, t), s.elev)[idx])]

\* servoUpdate(t) in the tracker state s
servoUpdate(s, t) ==
    IF ULt(SubW(t, lastServoUpdateMs), SERVO_UPDATE_MIN_MS)
    THEN UNCHANGED <<lastServoUpdateMs, servoPos>>
    ELSE /\ lastServoUpdateMs' = t
         /\ servoPos' = [idx \in {IDX_AZIM, IDX_ELEV} |->
                servoStep(idx, servoPos[idx],
                          newServoPos(calcProjectedAzimIn(s, t), s.elev)[idx])]

\* the value written to the actuator of axis idx
servoMicroseconds(idx) == CDiv(servoPos[idx], 100)

(***************************************************************************)
(* Control tick                                                            *)
(***************************************************************************)
\* Loop updating the servos whether or not home is set
Loop_NoHomeCheck(t) ==
    \E s \in processGps(t) :
        /\ now' = t
        /\ nticks' = nticks + 1
        /\ gpsLast' = s.gps
        /\ home' = s.home
        /\ homeState' = s.homeState
        /\ gpsAvgUpdateInterval' = s.avg
        /\ azimMsPerDegree' = s.rate
        /\ targetDistance' = s.dist
        /\ targetElev' = s.elev
        /\ targetAzim' = s.azim
        /\ IF UGt(t, DELAY_FIRST_UPDATE)
           THEN /\ servoUpdate(s, t)
                /\ loopBranch' = "tracking"
           ELSE /\ UNCHANGED <<lastServoUpdateMs, servoPos>>
                /\ loopBranch' = "idle"
        /\ UNCHANGED config

Loop(t) ==
    \E s \in processGps(t) :
        /\ now' = t
        /\ nticks' = nticks + 1
        /\ gpsLast' = s.gps
        /\ home' = s.home
        /\ homeState' = s.homeState
        /\ gpsAvgUpdateInterval' = s.avg
        /\ azimMsPerDegree' = s.rate
        /\ targetDistance' = s.dist
        /\ targetElev' = s.elev
        /\ targetAzim' = s.azim
        /\ IF s.homeState = "Set" /\ UGt(t, DELAY_FIRST_UPDATE)
           THEN /\ servoUpdate(s, t)
                /\ loopBranch' = "tracking"
           ELSE /\ UNCHANGED <<lastServoUpdateMs, servoPos>>
                /\ loopBranch' = "idle"
        /\ UNCHANGED config

\* a control tick d ms after the previous one; the idle branch ends with
\* delay(DELAY_IDLE), so the tick after it comes at least that much later,
\* and so does the first tick after start-up
Tick(d) ==
    /\ loopBranch # "tracking" => ~ULt(d, DELAY_IDLE)
    /\ Loop(AddW(now, d))

(***************************************************************************)
(* Specifications                                                          *)
(***************************************************************************)
Deliver == \E packet \in Packets : SendGpsTelemetry(packet)

Next ==
    \/ Deliver
    \/ \E d \in Steps : nticks < MaxTicks /\ Tick(d)

Spec == Init /\ [][Next]_vars

\* the tracker running for longer than the period of the millisecond counter
WrapNext ==
    \/ Deliver
    \/ \E d \in WrapSteps : nticks < MaxTicks /\ Tick(d)

WrapSpec == Init /\ [][WrapNext]_vars

\* fixes arriving and processed at a constant 1000 ms
SteadyDeliver ==
    /\ ~gpsLast.updated
    /\ \E packet \in SteadyPackets : SendGpsTelemetry(packet)

SteadyTick ==
    /\ gpsLast.updated
    /\ nticks < MaxSteadyTicks
    /\ Tick(1000)

SteadyNext == SteadyDeliver \/ SteadyTick

SteadySpec == Init /\ [][SteadyNext]_vars

\* fixes arriving for a while after the first servo update and stopping
\* then, with a control tick every 1000 ms
SettleDeliver ==
    /\ ~gpsLast.updated
    /\ nticks < MaxFixTicks
    /\ homeState = "Unset" \/ ~ULt(now, DELAY_FIRST_UPDATE)
    /\ \E packet \in Packets : SendGpsTelemetry(packet)

SettleTick ==
    /\ nticks < MaxSettleTicks
    /\ Tick(1000)

SettleNext == SettleDeliver \/ SettleTick

SettleSpec == Init /\ [][SettleNext]_vars

TypeOK ==
    /\ config \in Configs
    /\ homeState \in {"Unset", "Set"}
    /\ loopBranch \in {"none", "idle", "tracking"}
    /\ gpsLast.updated \in BOOLEAN
    /\ targetAzim \in 0..359
    /\ nticks \in 0..(MaxTicks + MaxSteadyTicks + MaxSettleTicks + 3)

(***************************************************************************)
(* Properties                                                              *)
(***************************************************************************)
\* a step that is a control tick, and one in which processGps finds a fix
TickStep == nticks' = nticks + 1
ProcessStep == TickStep /\ gpsLast.updated
\* a control tick in which servoUpdate passes its 20 ms gate
ServoStep ==
    /\ TickStep
    /\ loopBranch' = "tracking"
    /\ ~ULt(SubW(now', lastServoUpdateMs), SERVO_UPDATE_MIN_MS)

\* the tracker state after the step, as processGps returns it
TrackerAfter ==
    [gps |-> gpsLast', home |-> home', homeState |-> homeState',
     avg |-> gpsAvgUpdateInterval', rate |-> azimMsPerDegree',
     dist |-> targetDistance', elev |-> targetElev', azim |-> targetAzim']

FixPosition == [lat |-> gpsLast.lat, lon |-> gpsLast.lon, alt |-> gpsLast.altitude]
ProbeTimes == { AddW(now, d) : d \in ProbeSteps }

C2_HomeLatch ==
    [][/\ (ProcessStep /\ homeState = "Unset") =>
            IF gpsLast.satcnt >= config.satHomeMin
            THEN homeState' = "Set" /\ home' = FixPosition
            ELSE homeState' = "Unset" /\ home' = home
       /\ (homeState = "Unset" /\ ~ProcessStep) =>
            (homeState' = "Unset" /\ home' = home)]_vars

\* C2 witness: a fix below the minimum has been processed without setting
\* home, and a fix that reaches the minimum is waiting.
C2_Witness ==
    /\ homeState = "Unset"
    /\ gpsLast.lastUpdateMs # 0
    /\ gpsLast.updated
    /\ gpsLast.satcnt >= config.satHomeMin

\* C3: the tick that sets home leaves the average interval and the angular
\* rate as they were and stores the target vector computed from the fix.
C3_HomeFixNoRate ==
    [][(TickStep /\ homeState = "Unset" /\ homeState' = "Set") =>
          /\ gpsAvgUpdateInterval' = gpsAvgUpdateInterval
          /\ azimMsPerDegree' = azimMsPerDegree
          /\ \E r \in calcDistAndAzimuth(gpsLast.lat, gpsLast.lon,
                                         gpsLast.lat, gpsLast.lon) :
                /\ targetDistance' = r.dist
                /\ targetAzim' = r.azimuth
                /\ targetElev' = SConstrain(calcElevation(r.dist, 0), 0, 90)]_vars

\* C3 witness: home has just been set, some time after start-up, and no
\* rate has been estimated.
C3_Witness ==
    /\ homeState = "Set"
    /\ home = FixPosition
    /\ gpsLast.lastUpdateMs = now
    /\ now # 0
    /\ gpsAvgUpdateInterval = 0
    /\ azimMsPerDegree = 0

\* C4: the average update interval never exceeds 1,000,000 (as the unsigned
\* number it is).
C4_AvgIntervalCeiling ==
    gpsAvgUpdateInterval >= 0 /\ gpsAvgUpdateInterval <= 1000000

\* C4 witness: the second tick, 2^32 - 1500 ms after the first, processed a
\* fix: the interval times 100 overflows 32 bits and is negative as a signed
\* number, and the average is at the ceiling.
C4_Witness ==
    /\ nticks = 2
    /\ gpsLast.lastUpdateMs = AddW(1000, -1500)
    /\ gpsAvgUpdateInterval = GPS_UPDATE_INTERVAL_MAX

\* C5: with fixes processed every 1000 ms, each fix after the one that sets
\* home moves the average interval by (100000 - avg) / 4: the average never
\* decreases, never exceeds 100000, and ends within 3 of 100000.
C5_IntervalConvergence ==
    /\ [][(ProcessStep /\ homeState = "Set") =>
            /\ SubW(now', gpsLast.lastUpdateMs) = 1000
            /\ gpsAvgUpdateInterval' =
                 gpsAvgUpdateInterval + CDiv(100000 - gpsAvgUpdateInterval, 4)
            /\ gpsAvgUpdateInterval' >= gpsAvgUpdateInterval
            /\ gpsAvgUpdateInterval' <= 100000]_vars
    /\ [](nticks >= MaxSteadyTicks => 100000 - gpsAvgUpdateInterval <= 3)

\* C5 witness: two fixes 1000 ms apart have been processed after home was set.
C5_Witness ==
    /\ homeState = "Set"
    /\ gpsAvgUpdateInterval = 43750

\* C6: when projection is disabled, or the average interval is 0, or the
\* rate is 0, or the target is at most 3 m away, calcProjectedAzim returns
\* the target azimuth, whatever the time.
C6_ProjectionOff ==
    (\/ ~config.project
     \/ gpsAvgUpdateInterval = 0
     \/ azimMsPerDegree = 0
     \/ ~UGt(targetDistance, 3))
    => \A t \in ProbeTimes : calcProjectedAzim(t) = targetAzim

\* C6 witness: projection is enabled and a rate is known, but the target is
\* at the home position, some time after the fix.
C6_Witness ==
    /\ config.project
    /\ gpsAvgUpdateInterval # 0
    /\ azimMsPerDegree # 0
    /\ targetDistance <= 3
    /\ now # gpsLast.lastUpdateMs

\* C7: calcProjectedAzim returns an azimuth in [0, 360), whatever the time.
C7_ProjectedAzimRange ==
    \A t \in ProbeTimes : calcProjectedAzim(t) \in 0..359

\* C8: the position of each axis lies within [low * 100, high * 100].
C8_ServoPosInRange ==
    \A idx \in {IDX_AZIM, IDX_ELEV} :
        /\ servoPos[idx] >= 100 * GetAatServoLow(idx)
        /\ servoPos[idx] <= 100 * GetAatServoHigh(idx)

\* C9: a servo update sets each axis to the new position when the change is
\* more than 80 percent of the range, and otherwise moves it by
\* delta / (smoothing factor + 1).
C9_JumpOrSmooth ==
    [][ServoStep =>
        \A idx \in {IDX_AZIM, IDX_ELEV} :
            LET newPosition ==
                    newServoPos(calcProjectedAzimIn(TrackerAfter, now'),
                                targetElev')[idx]
                range == 100 * (GetAatServoHigh(idx) - GetAatServoLow(idx))
                delta == newPosition - servoPos[idx]
            IN  IF CDiv(Abs(delta) * 100, range) > 80
                THEN servoPos'[idx] = newPosition
                ELSE servoPos'[idx] =
                         servoPos[idx] + CDiv(delta, config.servoSmooth + 1)]_vars

\* C9 witness: with a smoothing factor of 1 the elevation axis is exactly
\* at its upper end, which smoothing from the midpoint never reaches.
C9_Witness ==
    /\ config.servoSmooth = 1
    /\ loopBranch = "tracking"
    /\ servoPos[IDX_ELEV] = 100 * GetAatServoHigh(IDX_ELEV)

\* C10: once home is set, every later control tick takes the tracking
\* branch of Loop.
C10_TrackingForever ==
    [][(TickStep /\ homeState = "Set") => loopBranch' = "tracking"]_vars

\* C11: the stored target azimuth is in [0, 360) and the stored target
\* elevation is in [0, 90] after every processed fix, whatever the home and
\* the target position (a target west of home has a negative raw bearing, a
\* target below home a negative raw elevation), and before the first one.
C11_TargetVectorRange ==
    targetAzim \in 0..359 /\ targetElev \in 0..90

\* the raw bearing and the raw elevation of the buffered fix seen from home
RawBearing == GeoTable[<<home.lat, home.lon, gpsLast.lat, gpsLast.lon>>].hdg
RawElevation == calcElevation(targetDistance, gpsLast.altitude - home.alt)

\* C11 witness: a fix west of home (raw bearing -89) has been processed and
\* the stored azimuth is the bearing brought into [0, 360).
C11_Witness ==
    /\ homeState = "Set"
    /\ ~gpsLast.updated
    /\ gpsLast.lastUpdateMs = now
    /\ RawBearing < 0
    /\ targetAzim = RawBearing + 360

\* a fix below home (raw elevation negative) has been processed
C11_BelowHome ==
    /\ homeState = "Set"
    /\ ~gpsLast.updated
    /\ gpsLast.lastUpdateMs = now
    /\ RawElevation < 0
    /\ targetElev = 0

\* C12: while home is Unset, a tick that processes a fix with fewer
\* satellites than the configured minimum leaves the home position, the
\* target azimuth, elevation and distance, the average interval and the
\* angular rate unchanged and performs no servo update.
C12_WeakFixIgnored ==
    [][(ProcessStep /\ homeState = "Unset"
            /\ gpsLast.satcnt < config.satHomeMin) =>
          /\ home' = home
          /\ homeState' = "Unset"
          /\ targetAzim' = targetAzim
          /\ targetElev' = targetElev
          /\ targetDistance' = targetDistance
          /\ gpsAvgUpdateInterval' = gpsAvgUpdateInterval
          /\ azimMsPerDegree' = azimMsPerDegree
          /\ servoPos' = servoPos
          /\ lastServoUpdateMs' = lastServoUpdateMs
          /\ loopBranch' = "idle"]_vars

\* C12 witness: a fix below the minimum has been processed by a tick later
\* than the first-update delay, and home is still Unset.
C12_Witness ==
    /\ homeState = "Unset"
    /\ ~gpsLast.updated
    /\ gpsLast.lastUpdateMs = now
    /\ gpsLast.satcnt > 0
    /\ gpsLast.satcnt < config.satHomeMin
    /\ UGt(now, DELAY_FIRST_UPDATE)
    /\ loopBranch = "idle"

\* C13: a control tick processes the buffered fix only when the fresh flag
\* is set, and then clears the flag and stamps the fix with the time of the
\* tick; only a delivery sets the flag, so a fix is processed by at most one
\* tick.  A tick that finds the flag clear leaves the buffer (with the time
\* of the last processing), home, the target vector, the rate and the
\* average interval unchanged.
C13_SingleSlotHandoff ==
    [][/\ (TickStep /\ gpsLast.updated) =>
            /\ ~gpsLast'.updated
            /\ gpsLast'.lastUpdateMs = now'
       /\ (TickStep /\ ~gpsLast.updated) =>
            /\ gpsLast' = gpsLast
            /\ home' = home
            /\ targetAzim' = targetAzim
            /\ targetElev' = targetElev
            /\ targetDistance' = targetDistance
            /\ azimMsPerDegree' = azimMsPerDegree
            /\ gpsAvgUpdateInterval' = gpsAvgUpdateInterval
       /\ (~gpsLast.updated /\ gpsLast'.updated) => nticks' = nticks]_vars

\* C13 witness: two fixes have been processed (a rate is known), a later
\* tick found the flag clear, and no fix is waiting.
C13_Witness ==
    /\ homeState = "Set"
    /\ gpsAvgUpdateInterval # 0
    /\ ~gpsLast.updated
    /\ gpsLast.lastUpdateMs # now

\* the time since the last servo update at the tick that ends the step,
\* modulo 2^32
ServoElapsed == SubW(now', lastServoUpdateMs)

\* C14: a step changes the servo positions or the time of the last servo
\* update only if it is a tick at least 20 ms (modulo 2^32) after the last
\* update, which it then records; a tick less than 20 ms after the last
\* update leaves both unchanged.
C14_ServoRateLimit ==
    [][/\ (servoPos' # servoPos \/ lastServoUpdateMs' # lastServoUpdateMs) =>
            /\ TickStep
            /\ ~ULt(ServoElapsed, SERVO_UPDATE_MIN_MS)
            /\ lastServoUpdateMs' = now'
       /\ (TickStep /\ ULt(ServoElapsed, SERVO_UPDATE_MIN_MS)) =>
            /\ servoPos' = servoPos
            /\ lastServoUpdateMs' = lastServoUpdateMs]_vars

\* C14 witness: a tracking tick 10 ms after a servo update, with the
\* millisecond counter above 2^31, processed a fix and left the servos as
\* they were, away from the position of the new target.
C14_Witness ==
    /\ loopBranch = "tracking"
    /\ lastServoUpdateMs < 0
    /\ SubW(now, lastServoUpdateMs) = 10
    /\ gpsLast.lastUpdateMs = now
    /\ servoPos[IDX_ELEV] # newServoPos(calcProjectedAzim(now), targetElev)[IDX_ELEV]

\* interval / delta for an interval in ms (an unsigned 32-bit number) and a
\* delta in degrees that is not 0: the quotient of the magnitudes, with the
\* sign of the delta
RateOf(interval, delta) ==
    LET q == IF Abs(delta) = 1 THEN interval ELSE UDiv(interval, Abs(delta))
    IN  IF delta > 0 THEN q ELSE -q

\* C15: a tick that processes a fix when home is set stores a rate that is
\* 0 when the azimuth delta is 0 and otherwise the interval since the
\* previous processing divided by the delta, with the sign of the delta,
\* where the delta is in [-180, 180] and congruent modulo 360 to the new
\* target azimuth minus the previous one.
C15_RateFromDelta ==
    [][(ProcessStep /\ homeState = "Set") =>
          \E azimDelta \in -180..180 :
              /\ (azimDelta - (targetAzim' - targetAzim)) % 360 = 0
              /\ azimMsPerDegree' =
                    IF azimDelta = 0 THEN 0
                    ELSE RateOf(SubW(now', gpsLast.lastUpdateMs), azimDelta)]_vars

\* a fix at another azimuth than the previous one has been processed after
\* home was set, and a rate is stored
C15_RateStored ==
    /\ homeState = "Set"
    /\ gpsLast.lastUpdateMs = now
    /\ gpsAvgUpdateInterval # 0
    /\ azimMsPerDegree # 0

\* the guard of the projection in calcProjectedAzim
ProjectionActive ==
    /\ config.project
    /\ gpsAvgUpdateInterval # 0
    /\ azimMsPerDegree # 0
    /\ UGt(targetDistance, PROJECT_MIN_DISTANCE)

\* the time since the last processed fix at time t, and that time limited
\* to one average interval (the average is in ms * 100)
ElapsedAt(t) == SubW(t, gpsLast.lastUpdateMs)
CappedElapsedAt(t) ==
    LET limit == UDiv(gpsAvgUpdateInterval, 100)
    IN  IF ULt(ElapsedAt(t), limit) THEN ElapsedAt(t) ELSE limit

\* the stored rate with its magnitude raised to at least 10 ms per degree
FloorLimitedRate ==
    LET magnitude == IF Abs(azimMsPerDegree) > 10 THEN Abs(azimMsPerDegree) ELSE 10
    IN  IF azimMsPerDegree > 0 THEN magnitude ELSE -magnitude

\* the offset one average interval after the fix
FullOffset == CDiv(UDiv(gpsAvgUpdateInterval, 100), FloorLimitedRate)

\* C16: when the projection is active, the offset added to the target
\* azimuth at any time is min(elapsed, average interval) divided by the
\* floor-limited rate; it is at most elapsed / 10 degrees in magnitude, is
\* never of the sign opposite to the stored rate, never exceeds the offset
\* one average interval after the fix and equals it at all later times.
C16_ProjectionOffset ==
    ProjectionActive =>
        \A t \in ProbeTimes :
            LET offset == projectedOffset(processGpsSkip, t)
            IN  /\ offset = CDiv(CappedElapsedAt(t), FloorLimitedRate)
                /\ Abs(offset) * 10 <= CappedElapsedAt(t)
                /\ ~UGt(CappedElapsedAt(t), ElapsedAt(t))
                /\ offset > 0 => azimMsPerDegree > 0
                /\ offset < 0 => azimMsPerDegree < 0
                /\ Abs(offset) <= Abs(FullOffset)
                /\ ~ULt(ElapsedAt(t), UDiv(gpsAvgUpdateInterval, 100))
                      => offset = FullOffset

\* C16 witness: the projection is active with a stored rate below 10 ms per
\* degree in magnitude, more than one average interval after the fix, and
\* the offset is not 0.
C16_Witness ==
    /\ ProjectionActive
    /\ Abs(azimMsPerDegree) < AZIM_MS_PER_DEGREE_MIN
    /\ UGt(ElapsedAt(now), UDiv(gpsAvgUpdateInterval, 100))
    /\ projectedOffset(processGpsSkip, now) # 0

\* the times at which the staleness percentage is read
StaleTimes == { AddW(now, d) : d \in StaleSteps }

\* clamp(elapsed * 10000 / average, 0, 100) for the elapsed time at t (an
\* unsigned 32-bit number) and an average that is not 0, in the integers:
\* the quotient is 100 or more when elapsed >= average / 100
StalenessAt(t) ==
    IF ULt(ElapsedAt(t), (gpsAvgUpdateInterval + 99) \div 100)
    THEN (ElapsedAt(t) * 10000) \div gpsAvgUpdateInterval
    ELSE 100

\* C17: calcGpsIntervalPct returns 0 when the average interval is 0 and
\* otherwise clamp((now - lastUpdateMs) * 10000 / average, 0, 100), a value
\* in [0, 100], the subtraction being modulo 2^32.
C17_IntervalPct ==
    \A t \in StaleTimes :
        /\ calcGpsIntervalPct(t) \in 0..100
        /\ calcGpsIntervalPct(t) =
              IF gpsAvgUpdateInterval = 0 THEN 0 ELSE StalenessAt(t)

\* C18: as long as no further fix is processed, the staleness percentage
\* does not decrease as time passes, and once it is 100 it is 100 at every
\* later time.
C18_StalenessMonotone ==
    \A t, u \in StaleTimes :
        ULt(ElapsedAt(t), ElapsedAt(u)) =>
            /\ calcGpsIntervalPct(t) <= calcGpsIntervalPct(u)
            /\ calcGpsIntervalPct(t) = 100 => calcGpsIntervalPct(u) = 100

\* the same two statements for times at which elapsed * 10000 fits 32 bits
StaleTimesNoWrap == { t \in StaleTimes : ~UGt(ElapsedAt(t), 429496) }
C17_IntervalPctNoWrap ==
    \A t \in StaleTimesNoWrap :
        calcGpsIntervalPct(t) =
            IF gpsAvgUpdateInterval = 0 THEN 0 ELSE StalenessAt(t)
C18_StalenessMonotoneNoWrap ==
    \A t, u \in StaleTimesNoWrap :
        ULt(ElapsedAt(t), ElapsedAt(u)) =>
            calcGpsIntervalPct(t) <= calcGpsIntervalPct(u)

\* an average is known and the percentage read at the latest tick is
\* neither 0 nor 100
StalenessPartial ==
    /\ gpsAvgUpdateInterval # 0
    /\ calcGpsIntervalPct(now) \in 1..99

\* the position servoUpdate steers axis idx to at the latest tick
MappedTarget(idx) == newServoPos(calcProjectedAzim(now), targetElev)[idx]

\* C19: a servo update moves each axis toward the mapped target of that
\* update and not beyond it: the sign of target - position does not flip
\* and its magnitude does not grow, so with a constant target the position
\* approaches it monotonically; once the fixes have stopped the position
\* comes to rest no further from the target than the smoothing factor.
C19_ServoApproach ==
    /\ [][ServoStep =>
            \A idx \in {IDX_AZIM, IDX_ELEV} :
                LET target ==
                        newServoPos(calcProjectedAzimIn(TrackerAfter, now'),
                                    targetElev')[idx]
                    before == target - servoPos[idx]
                    after == target - servoPos'[idx]
                IN  /\ before >= 0 => (after >= 0 /\ after <= before)
                    /\ before <= 0 => (after <= 0 /\ after >= before)]_vars
    /\ []((nticks >= MaxSettleTicks /\ loopBranch = "tracking") =>
            \A idx \in {IDX_AZIM, IDX_ELEV} :
                /\ Abs(MappedTarget(idx) - servoPos[idx]) <= config.servoSmooth
                /\ servoStep(idx, servoPos[idx], MappedTarget(idx)) = servoPos[idx])

\* C19 witness: with a smoothing factor of 3 an axis has moved and come to
\* rest next to the target, not on it.
C19_Witness ==
    /\ config.servoSmooth = 3
    /\ loopBranch = "tracking"
    /\ \E idx \in {IDX_AZIM, IDX_ELEV} :
          /\ servoPos[idx] # CDiv(GetAatServoLow(idx) + GetAatServoHigh(idx), 2) * 100
          /\ servoPos[idx] # MappedTarget(idx)
          /\ Abs(MappedTarget(idx) - servoPos[idx]) <= config.servoSmooth

====
